---------------------------- MODULE Spec2Model ----------------------------
(***************************************************************************)
(* Model of CUDACore/ScopedContext.h: the RAII scopes ScopedContextAcquire, *)
(* ScopedContextProduce, ScopedContextTask and ScopedContextAnalyze, the    *)
(* synchronizing getter and the continuation holder helper.                 *)
(*                                                                          *)
(* The header declares, but does not define, the base-scope constructors,   *)
(* synchronizeStreams, enqueueCallback, the destructors and throwNoState,   *)
(* and it uses Product, ContextState and WaitingTaskWithArenaHolder from    *)
(* other headers.  Those parts follow the design document (sections 4.1 to  *)
(* 4.6); everything defined inline in the header follows the header.        *)
(***************************************************************************)
EXTENDS Integers, Sequences, FiniteSets

\* ----- bounds of the model -----
MaxScopes == 2
MaxTaskScopes == 2
MaxTasks == 4
MaxWraps == 2
\* reads of one wrapper in a row by one scope
MaxGets == 2

\* ----- value domains -----
Devices == {0, 1}
StreamIDs == {0, 1}
StateIds == {1}
NoDevice == -1
NoStream == 0
NoEvent == 0
NoHolder == 0
NoState == 0

VARIABLES
  scopes,         \* every scope object constructed so far, in construction order
  cstate,         \* the ContextState objects: device and stream
  products,       \* the result wrappers (Product<T>) built so far, by value
  tasks,          \* notification targets: framework holders and composed tasks
  queue,          \* per stream: host callbacks registered and not yet fired
  recorded,       \* events recorded on a stream so far
  completed,      \* recorded events the GPU has reached
  currentDevice,  \* the host thread's current device
  pool,           \* streams and events handed out by the caches so far, and the
                  \* states whose stream a failed construction gave back
  last            \* outcome of the last operation: waits issued by get, error thrown

vars == <<scopes, cstate, products, tasks, queue, recorded, completed,
          currentDevice, pool, last>>

Streams == 0..MaxScopes
ScopeIds == 1..Len(scopes)
\* scopes the stage code constructed, and Task scopes the callbacks run in
ClientScopes == {s \in ScopeIds : scopes[s].kind # "Task"}
TaskScopes == {s \in ScopeIds : scopes[s].kind = "Task"}
TaskIds == 1..Len(tasks)

Quiet == [op |-> "other", scope |-> 0, prod |-> 0, waits |-> <<>>, nth |-> 0, issued |-> 0]

\* ----- ScopedContextBase -----

\* chooseDevice(streamID): the device of the stream obtained for the key
ChooseDevice(streamID) == streamID % Cardinality(Devices)

device(sc) == sc.dev
stream(sc) == sc.stream
streamPtr(sc) == sc.stream

\* history kept with a scope: src (what it was constructed from), h0 (the holder
\* it was constructed with), of (the composed task whose callback it serves),
\* wraps (its wrap/emplace calls), enq (its enqueueCallback calls) and rec (its
\* event records)
NewScope(kind, base, holder, state, event, of) ==
  [kind |-> kind, dev |-> base.dev, stream |-> base.stream, alive |-> TRUE,
   holder |-> holder, state |-> state, event |-> event, of |-> of,
   src |-> base.src, h0 |-> holder, wraps |-> 0, enq |-> <<>>, rec |-> <<>>]

\* ScopedContextBase(edm::StreamID): fresh stream from the pool, its device
BaseFromStreamID(streamID) ==
  [dev |-> ChooseDevice(streamID), stream |-> pool.streams + 1,
   src |-> [how |-> "streamID", id |-> streamID]]

\* ScopedContextBase(const ProductBase&): the wrapper's device and stream
BaseFromProduct(data) ==
  [dev |-> data.dev, stream |-> data.stream, src |-> [how |-> "product", id |-> data]]

\* ScopedContextBase(int device, SharedStreamPtr stream)
BaseFromPair(dev, str, st) ==
  [dev |-> dev, stream |-> str, src |-> [how |-> "state", id |-> st]]

NoBase == [dev |-> NoDevice, stream |-> NoStream, src |-> [how |-> "none", id |-> 0]]

\* ----- Product -----
isAvailable(data) == data.event = NoEvent \/ data.event \in completed

\* ----- ContextState -----
StateDevice(st) == cstate[st].dev
StateStreamPtr(st) == cstate[st].stream
\* releaseStreamPtr(): hands the stream out and leaves the state without one
ReleaseStreamPtr(st) == [cstate EXCEPT ![st].stream = NoStream]
\* set(device, stream)
StateSet(cs, st, dev, str) == [cs EXCEPT ![st] = [dev |-> dev, stream |-> str]]

Init ==
  /\ scopes = <<>>
  /\ cstate = [st \in StateIds |-> [dev |-> NoDevice, stream |-> NoStream]]
  /\ products = {}
  /\ tasks = <<>>
  /\ queue = [s \in Streams |-> <<>>]
  /\ recorded = {}
  /\ completed = {}
  /\ currentDevice = 0
  /\ pool = [streams |-> 0, events |-> 0, returned |-> {}]
  /\ last = Quiet


\* ----- WaitingTaskWithArenaHolder -----
\* a holder supplied by the framework: signalling it resumes the framework
\* runs counts the times the target was fired; by is the scope whose helper
\* composed it; dropped tells that a helper overwrote it without firing it
FrameworkHolder ==
  [kind |-> "base", prev |-> NoHolder, state |-> NoState, by |-> 0,
   runs |-> 0, dropped |-> FALSE]

\* make_waiting_task_with_holder(holder, lambda capturing state and func)
MakeWaitingTaskWithHolder(holder, state, by) ==
  [kind |-> "chain", prev |-> holder, state |-> state, by |-> by,
   runs |-> 0, dropped |-> FALSE]

\* ----- ScopedContextGetterBase -----

\* synchronizeStreams: the wait-on-event instructions issued for one read
SynchronizeStreams(sc, dataDevice, dataStream, available, dataEvent) ==
  IF available THEN <<>>
  ELSE IF dataStream = stream(sc) THEN <<>>
  ELSE << <<stream(sc), dataEvent>> >>

\* get with the wrapper's event and stream handles passed in each other's place
GetWaits_SwappedHandles(sc, data) ==
  SynchronizeStreams(sc, data.dev, data.event, isAvailable(data), data.stream)

\* get that passes no stream of the wrapper
GetWaits_NoDataStream(sc, data) ==
  SynchronizeStreams(sc, data.dev, NoStream, isAvailable(data), data.event)

\* get that does not pass the wrapper's availability
GetWaits_NeverAvailable(sc, data) ==
  SynchronizeStreams(sc, data.dev, data.stream, FALSE, data.event)

\* get(const Product<T>&)
GetWaits(sc, data) ==
  SynchronizeStreams(sc, data.dev, data.stream, isAvailable(data), data.event)

\* the read continues a run of reads of wrapper p by scope s
SameRead(s, p) == last.op = "get" /\ last.scope = s /\ last.prod = p

\* outcome of a read that issued the waits w: the count of the reads in the
\* run and of the waits they issued
GetOutcome(s, p, w) ==
  [op |-> "get", scope |-> s, prod |-> p, waits |-> w,
   nth |-> IF SameRead(s, p) THEN last.nth + 1 ELSE 1,
   issued |-> (IF SameRead(s, p) THEN last.issued ELSE 0) + Len(w)]

\* get that moves the reading scope to the wrapper's device
Get_AdoptsDevice(s, p) ==
  /\ scopes[s].alive
  /\ scopes[s].kind \in {"Acquire", "Produce", "Analyze"}
  /\ ~(SameRead(s, p) /\ last.nth >= MaxGets)
  /\ scopes' = [scopes EXCEPT ![s].dev = p.dev]
  /\ last' = GetOutcome(s, p, GetWaits(scopes[s], p))
  /\ UNCHANGED <<cstate, products, tasks, queue, recorded, completed,
                 currentDevice, pool>>

\* get that remembers the wrapper it synchronized with and skips it afterwards
Get_Cached(s, p) ==
  /\ scopes[s].alive
  /\ scopes[s].kind \in {"Acquire", "Produce", "Analyze"}
  /\ ~(SameRead(s, p) /\ last.nth >= MaxGets)
  /\ last' = GetOutcome(s, p, IF SameRead(s, p) THEN <<>> ELSE GetWaits(scopes[s], p))
  /\ UNCHANGED <<scopes, cstate, products, tasks, queue, recorded, completed,
                 currentDevice, pool>>

\* const T& get(const Product<T>&) const, up to MaxGets reads in a row
Get(s, p) ==
  /\ scopes[s].alive
  /\ scopes[s].kind \in {"Acquire", "Produce", "Analyze"}
  /\ ~(SameRead(s, p) /\ last.nth >= MaxGets)
  /\ last' = GetOutcome(s, p, GetWaits(scopes[s], p))
  /\ UNCHANGED <<scopes, cstate, products, tasks, queue, recorded, completed,
                 currentDevice, pool>>

\* ----- ScopedContextHolderHelper -----

\* ScopedContextHolderHelper(holder)
HelperNew ==
  /\ Cardinality(ClientScopes) < MaxScopes
  /\ Len(tasks) < MaxTasks
  /\ scopes' = Append(scopes, NewScope("Helper", NoBase, Len(tasks) + 1,
                                       NoState, NoEvent, 0))
  /\ tasks' = Append(tasks, FrameworkHolder)
  /\ last' = Quiet
  /\ UNCHANGED <<cstate, products, queue, recorded, completed, currentDevice, pool>>

\* pushNextTask that composes the new target and forgets to install it
HolderPushNextTask_NotInstalled(s, state) ==
  /\ Len(tasks) < MaxTasks
  /\ tasks' = Append(tasks, MakeWaitingTaskWithHolder(scopes[s].holder, state, s))
  /\ last' = [op |-> "push", scope |-> s, prod |-> 0, waits |-> <<>>, nth |-> 0, issued |-> 0]
  /\ UNCHANGED <<scopes, cstate, products, queue, recorded, completed, currentDevice, pool>>

\* ScopedContextHolderHelper::pushNextTask(f, state) on the helper of scope s
HolderPushNextTask(s, state) ==
  /\ Len(tasks) < MaxTasks
  /\ tasks' = Append(tasks, MakeWaitingTaskWithHolder(scopes[s].holder, state, s))
  /\ scopes' = [scopes EXCEPT ![s].holder = Len(tasks) + 1]
  /\ last' = [op |-> "push", scope |-> s, prod |-> 0, waits |-> <<>>, nth |-> 0, issued |-> 0]
  /\ UNCHANGED <<cstate, products, queue, recorded, completed, currentDevice, pool>>

HelperPushNextTask(s, state) ==
  /\ scopes[s].kind = "Helper"
  /\ HolderPushNextTask(s, state)

\* replaceWaitingTaskHolder that signals the target it lets go of
ReplaceWaitingTaskHolder_FiresOld(s) ==
  /\ scopes[s].alive
  /\ scopes[s].kind \in {"Acquire", "Task"}
  /\ Len(tasks) < MaxTasks
  /\ tasks' = Append([tasks EXCEPT ![scopes[s].holder].dropped = TRUE,
                                   ![scopes[s].holder].runs = @ + 1], FrameworkHolder)
  /\ scopes' = [scopes EXCEPT ![s].holder = Len(tasks) + 1]
  /\ last' = Quiet
  /\ UNCHANGED <<cstate, products, queue, recorded, completed, currentDevice, pool>>

\* replaceWaitingTaskHolder(holder), with a holder newly supplied by the framework
ReplaceWaitingTaskHolder(s) ==
  /\ scopes[s].alive
  /\ scopes[s].kind \in {"Acquire", "Task"}
  /\ Len(tasks) < MaxTasks
  /\ tasks' = Append([tasks EXCEPT ![scopes[s].holder].dropped = TRUE], FrameworkHolder)
  /\ scopes' = [scopes EXCEPT ![s].holder = Len(tasks) + 1]
  /\ last' = Quiet
  /\ UNCHANGED <<cstate, products, queue, recorded, completed, currentDevice, pool>>

\* enqueueCallback(device, stream): bind the held target to the stream's completion
EnqueueCallback(q, holder, dev, str) ==
  [q EXCEPT ![str] = Append(@, [holder |-> holder, dev |-> dev])]

\* ----- ScopedContextAcquire -----

\* constructor that leaves the thread on the device it was on
AcquireCtor_KeepsDevice(base, state) ==
  /\ Cardinality(ClientScopes) < MaxScopes
  /\ Len(tasks) < MaxTasks
  /\ scopes' = Append(scopes, NewScope("Acquire", base, Len(tasks) + 1,
                                       state, NoEvent, 0))
  /\ tasks' = Append(tasks, FrameworkHolder)
  /\ last' = Quiet
  /\ UNCHANGED <<cstate, products, queue, recorded, completed, currentDevice>>

AcquireCtor(base, state) ==
  /\ Cardinality(ClientScopes) < MaxScopes
  /\ Len(tasks) < MaxTasks
  /\ scopes' = Append(scopes, NewScope("Acquire", base, Len(tasks) + 1,
                                       state, NoEvent, 0))
  /\ tasks' = Append(tasks, FrameworkHolder)
  /\ currentDevice' = base.dev
  /\ last' = Quiet
  /\ UNCHANGED <<cstate, products, queue, recorded, completed>>

\* ScopedContextAcquire(streamID, holder) and (streamID, holder, state)
AcquireNew(streamID, state) ==
  /\ AcquireCtor(BaseFromStreamID(streamID), state)
  /\ pool' = [pool EXCEPT !.streams = @ + 1]

\* ScopedContextAcquire(data, holder) and (data, holder, state)
AcquireFrom(p, state) ==
  /\ AcquireCtor(BaseFromProduct(p), state)
  /\ UNCHANGED pool

\* throwNoState()
ThrowNoState(s) ==
  /\ last' = [op |-> "throwNoState", scope |-> s, prod |-> 0, waits |-> <<>>, nth |-> 0, issued |-> 0]
  /\ UNCHANGED <<scopes, cstate, products, tasks, queue, recorded, completed,
                 currentDevice, pool>>

\* pushNextTask that binds the new target to the stream at once
AcquirePushNextTask_EagerEnqueue(s) ==
  /\ scopes[s].alive
  /\ scopes[s].kind = "Acquire"
  /\ scopes[s].state # NoState
  /\ Len(tasks) < MaxTasks
  /\ tasks' = Append(tasks, MakeWaitingTaskWithHolder(scopes[s].holder, scopes[s].state, s))
  /\ scopes' = [scopes EXCEPT ![s].holder = Len(tasks) + 1,
                              ![s].enq = Append(@, <<device(scopes[s]), stream(scopes[s])>>)]
  /\ queue' = EnqueueCallback(queue, Len(tasks) + 1, device(scopes[s]), stream(scopes[s]))
  /\ last' = [op |-> "push", scope |-> s, prod |-> 0, waits |-> <<>>, nth |-> 0, issued |-> 0]
  /\ UNCHANGED <<cstate, products, recorded, completed, currentDevice, pool>>

\* pushNextTask without the check for a missing continuation state
AcquirePushNextTask_NoCheck(s) ==
  /\ scopes[s].alive
  /\ scopes[s].kind = "Acquire"
  /\ HolderPushNextTask(s, scopes[s].state)

\* ScopedContextAcquire::pushNextTask(f)
AcquirePushNextTask(s) ==
  /\ scopes[s].alive
  /\ scopes[s].kind = "Acquire"
  /\ IF scopes[s].state = NoState
       THEN ThrowNoState(s)
       ELSE HolderPushNextTask(s, scopes[s].state)

\* ~ScopedContextAcquire()
AcquireDestroy(s) ==
  /\ scopes[s].alive
  /\ scopes[s].kind = "Acquire"
  /\ queue' = EnqueueCallback(queue, scopes[s].holder, device(scopes[s]), stream(scopes[s]))
  /\ scopes' = [scopes EXCEPT ![s].alive = FALSE,
                              ![s].enq = Append(@, <<device(scopes[s]), stream(scopes[s])>>)]
  /\ cstate' = IF scopes[s].state # NoState
                 THEN StateSet(cstate, scopes[s].state, device(scopes[s]), streamPtr(scopes[s]))
                 ELSE cstate
  /\ last' = Quiet
  /\ UNCHANGED <<products, tasks, recorded, completed, currentDevice, pool>>

\* ----- ScopedContextProduce -----

\* getEventCache().get() throws: the base scope is already constructed (the
\* device is selected, the stream taken), the scope is not
EventCacheThrows(base) ==
  /\ currentDevice' = base.dev
  /\ last' = [op |-> "throwEvent", scope |-> 0, prod |-> 0, waits |-> <<>>, nth |-> 0, issued |-> 0]
  /\ UNCHANGED <<scopes, products, tasks, queue, recorded, completed>>

\* constructor that asks for its event only when it first needs one
ProduceCtor_LazyEvent(base, gotEvent) ==
  /\ Cardinality(ClientScopes) < MaxScopes
  /\ scopes' = Append(scopes, NewScope("Produce", base, NoHolder, NoState,
                                       IF gotEvent THEN pool.events + 1 ELSE NoEvent, 0))
  /\ currentDevice' = base.dev
  /\ last' = Quiet
  /\ UNCHANGED <<products, tasks, queue, recorded, completed>>

\* the base scope, then the member event_ = getEventCache().get(); gotEvent tells
\* whether the event cache supplies an event
ProduceCtor(base, gotEvent) ==
  IF gotEvent
    THEN /\ Cardinality(ClientScopes) < MaxScopes
         /\ scopes' = Append(scopes, NewScope("Produce", base, NoHolder, NoState,
                                              pool.events + 1, 0))
         /\ currentDevice' = base.dev
         /\ last' = Quiet
         /\ UNCHANGED <<products, tasks, queue, recorded, completed>>
    ELSE EventCacheThrows(base)

\* the caches after a Produce construction: a failed one gives its stream back
PoolAfter(gotEvent, newStream) ==
  IF gotEvent
    THEN [pool EXCEPT !.streams = IF newStream THEN @ + 1 ELSE @, !.events = @ + 1]
    ELSE pool

\* ScopedContextProduce(streamID)
ProduceNew(streamID, gotEvent) ==
  /\ ProduceCtor(BaseFromStreamID(streamID), gotEvent)
  /\ pool' = PoolAfter(gotEvent, TRUE)
  /\ UNCHANGED cstate

\* ScopedContextProduce(const ProductBase&)
ProduceFrom(p, gotEvent) ==
  /\ ProduceCtor(BaseFromProduct(p), gotEvent)
  /\ pool' = PoolAfter(gotEvent, FALSE)
  /\ UNCHANGED cstate

\* constructor that copies the state's stream and leaves it in the state
ProduceFromState_Copy(st, gotEvent) ==
  /\ StateDevice(st) \in Devices
  /\ ProduceCtor(BaseFromPair(StateDevice(st), StateStreamPtr(st), st), gotEvent)
  /\ pool' = PoolAfter(gotEvent, FALSE)
  /\ UNCHANGED cstate

\* ScopedContextProduce(ContextState&)
ProduceFromState(st, gotEvent) ==
  IF StateDevice(st) \in Devices
    THEN /\ ProduceCtor(BaseFromPair(StateDevice(st), StateStreamPtr(st), st), gotEvent)
         /\ cstate' = ReleaseStreamPtr(st)
         /\ pool' = IF gotEvent THEN PoolAfter(TRUE, FALSE)
                    ELSE [pool EXCEPT !.returned = @ \cup {st}]
    ELSE \* selecting an invalid device is fatal: no scope is constructed
         /\ last' = [op |-> "throwDevice", scope |-> 0, prod |-> 0, waits |-> <<>>, nth |-> 0, issued |-> 0]
         /\ UNCHANGED <<scopes, cstate, products, tasks, queue, recorded, completed,
                        currentDevice, pool>>

\* wrapper that gets an event of its own
WrapProduct_OwnEvent(sc) ==
  [dev |-> device(sc), stream |-> streamPtr(sc), event |-> sc.event + sc.wraps]

\* the wrapper built by wrap(data) and by emplace(iEvent, token, args...)
WrapProduct(sc) == [dev |-> device(sc), stream |-> streamPtr(sc), event |-> sc.event]

\* wrap that records the event as soon as the wrapper is built
WrapRecords_Eager(sc) == << <<sc.event, stream(sc)>> >>

\* the event records wrap issues: none
WrapRecords(sc) == <<>>

Wrap(s) ==
  /\ scopes[s].alive
  /\ scopes[s].kind = "Produce"
  /\ scopes[s].wraps < MaxWraps
  /\ products' = products \cup {WrapProduct(scopes[s])}
  /\ scopes' = [scopes EXCEPT ![s].wraps = @ + 1,
                              ![s].rec = @ \o WrapRecords(scopes[s])]
  /\ last' = Quiet
  /\ UNCHANGED <<cstate, tasks, queue, recorded, completed, currentDevice, pool>>

\* ~ScopedContextProduce(): record the owned event on the stream
ProduceDestroy(s) ==
  /\ scopes[s].alive
  /\ scopes[s].kind = "Produce"
  /\ scopes' = [scopes EXCEPT ![s].alive = FALSE,
                              ![s].rec = Append(@, <<scopes[s].event, stream(scopes[s])>>)]
  /\ recorded' = recorded \cup {scopes[s].event}
  /\ last' = Quiet
  /\ UNCHANGED <<cstate, products, tasks, queue, completed, currentDevice, pool>>

\* the GPU reaches a recorded event
EventCompletes(e) ==
  /\ e \in recorded \ completed
  /\ completed' = completed \cup {e}
  /\ last' = Quiet
  /\ UNCHANGED <<scopes, cstate, products, tasks, queue, recorded, currentDevice, pool>>

\* ----- ScopedContextTask -----

\* constructor that takes no stream from the state
TaskCtor_NoStream(state, holder, of) ==
  NewScope("Task", BaseFromPair(StateDevice(state), NoStream, state),
           holder, state, NoEvent, of)

\* constructor that keeps the thread's current device
TaskCtor_CurrentDevice(state, holder, of) ==
  NewScope("Task", BaseFromPair(currentDevice, StateStreamPtr(state), state),
           holder, state, NoEvent, of)

\* ScopedContextTask(state, holder), running the callback of task `of`
TaskCtor(state, holder, of) ==
  NewScope("Task", BaseFromPair(StateDevice(state), StateStreamPtr(state), state),
           holder, state, NoEvent, of)

\* the driver's trampoline for the first callback registered on stream str:
\* doneWaiting on the bound target; a composed task then runs
\* func(ScopedContextTask{state, prev})
StreamCallback(str) ==
  /\ queue[str] # <<>>
  /\ LET h == Head(queue[str]).holder IN
       /\ tasks' = [tasks EXCEPT ![h].runs = @ + 1]
       /\ IF tasks[h].kind = "chain"
            THEN /\ Cardinality(TaskScopes) < MaxTaskScopes
                 /\ scopes' = Append(scopes, TaskCtor(tasks[h].state, tasks[h].prev, h))
                 /\ currentDevice' = StateDevice(tasks[h].state)
            ELSE UNCHANGED <<scopes, currentDevice>>
  /\ queue' = [queue EXCEPT ![str] = Tail(@)]
  /\ last' = Quiet
  /\ UNCHANGED <<cstate, products, recorded, completed, pool>>

\* pushNextTask that moves the stream out of the state for the callback
TaskPushNextTask_MovesStream(s) ==
  /\ scopes[s].alive
  /\ scopes[s].kind = "Task"
  /\ Len(tasks) < MaxTasks
  /\ tasks' = Append(tasks, MakeWaitingTaskWithHolder(scopes[s].holder, scopes[s].state, s))
  /\ scopes' = [scopes EXCEPT ![s].holder = Len(tasks) + 1]
  /\ cstate' = ReleaseStreamPtr(scopes[s].state)
  /\ last' = [op |-> "push", scope |-> s, prod |-> 0, waits |-> <<>>, nth |-> 0, issued |-> 0]
  /\ UNCHANGED <<products, queue, recorded, completed, currentDevice, pool>>

\* ScopedContextTask::pushNextTask(f)
TaskPushNextTask(s) ==
  /\ scopes[s].alive
  /\ scopes[s].kind = "Task"
  /\ HolderPushNextTask(s, scopes[s].state)

\* ~ScopedContextTask(), when the callback returns
TaskDestroy(s) ==
  /\ scopes[s].alive
  /\ scopes[s].kind = "Task"
  /\ queue' = EnqueueCallback(queue, scopes[s].holder, device(scopes[s]), stream(scopes[s]))
  /\ scopes' = [scopes EXCEPT ![s].alive = FALSE,
                              ![s].enq = Append(@, <<device(scopes[s]), stream(scopes[s])>>)]
  /\ last' = Quiet
  /\ UNCHANGED <<cstate, products, tasks, recorded, completed, currentDevice, pool>>

\* ----- ScopedContextAnalyze -----

\* ScopedContextAnalyze(const ProductBase&)
AnalyzeFrom(p) ==
  /\ Cardinality(ClientScopes) < MaxScopes
  /\ LET base == BaseFromProduct(p) IN
       /\ scopes' = Append(scopes, NewScope("Analyze", base, NoHolder, NoState,
                                            NoEvent, 0))
       /\ currentDevice' = base.dev
  /\ last' = Quiet
  /\ UNCHANGED <<cstate, products, tasks, queue, recorded, completed, pool>>

AnalyzeDestroy(s) ==
  /\ scopes[s].alive
  /\ scopes[s].kind = "Analyze"
  /\ scopes' = [scopes EXCEPT ![s].alive = FALSE]
  /\ last' = Quiet
  /\ UNCHANGED <<cstate, products, tasks, queue, recorded, completed, currentDevice, pool>>

\* ----- the program -----

Next ==
  \/ \E k \in StreamIDs, st \in StateIds \cup {NoState} : AcquireNew(k, st)
  \/ \E p \in products, st \in StateIds \cup {NoState} : AcquireFrom(p, st)
  \/ \E s \in ScopeIds : AcquirePushNextTask(s)
  \/ \E s \in ScopeIds : ReplaceWaitingTaskHolder(s)
  \/ \E s \in ScopeIds : AcquireDestroy(s)
  \/ \E k \in StreamIDs, ok \in BOOLEAN : ProduceNew(k, ok)
  \/ \E p \in products, ok \in BOOLEAN : ProduceFrom(p, ok)
  \/ \E st \in StateIds, ok \in BOOLEAN : ProduceFromState(st, ok)
  \/ \E s \in ScopeIds : Wrap(s)
  \/ \E s \in ScopeIds : ProduceDestroy(s)
  \/ \E e \in recorded : EventCompletes(e)
  \/ \E s \in ScopeIds, p \in products : Get(s, p)
  \/ \E str \in Streams : StreamCallback(str)
  \/ \E s \in ScopeIds : TaskPushNextTask(s)
  \/ \E s \in ScopeIds : TaskDestroy(s)
  \/ \E p \in products : AnalyzeFrom(p)
  \/ \E s \in ScopeIds : AnalyzeDestroy(s)
  \/ HelperNew
  \/ \E s \in ScopeIds, st \in StateIds \cup {NoState} : HelperPushNextTask(s, st)

Spec == Init /\ [][Next]_vars

\* the scopes as readers and producers of result wrappers
NextSync ==
  \/ \E k \in StreamIDs : AcquireNew(k, NoState)
  \/ \E p \in products : AcquireFrom(p, NoState)
  \/ \E s \in ScopeIds : AcquireDestroy(s)
  \/ \E k \in StreamIDs, ok \in BOOLEAN : ProduceNew(k, ok)
  \/ \E p \in products, ok \in BOOLEAN : ProduceFrom(p, ok)
  \/ \E s \in ScopeIds : Wrap(s)
  \/ \E s \in ScopeIds : ProduceDestroy(s)
  \/ \E e \in recorded : EventCompletes(e)
  \/ \E s \in ScopeIds, p \in products : Get(s, p)
  \/ \E p \in products : AnalyzeFrom(p)
  \/ \E s \in ScopeIds : AnalyzeDestroy(s)

SpecSync == Init /\ [][NextSync]_vars

\* the scopes as links of a continuation chain over a continuation state, with
\* an event cache that serves every request
NextChain ==
  \/ \E k \in StreamIDs, st \in StateIds \cup {NoState} : AcquireNew(k, st)
  \/ \E s \in ScopeIds : AcquirePushNextTask(s)
  \/ \E s \in ScopeIds : ReplaceWaitingTaskHolder(s)
  \/ \E s \in ScopeIds : AcquireDestroy(s)
  \/ \E st \in StateIds : ProduceFromState(st, TRUE)
  \/ \E s \in ScopeIds : ProduceDestroy(s)
  \/ \E str \in Streams : StreamCallback(str)
  \/ \E s \in ScopeIds : TaskPushNextTask(s)
  \/ \E s \in ScopeIds : TaskDestroy(s)
  \/ HelperNew
  \/ \E s \in ScopeIds, st \in StateIds \cup {NoState} : HelperPushNextTask(s, st)

SpecChain == Init /\ [][NextChain]_vars

\* the Produce scope built in each of its three ways, with an event cache that
\* may fail, next to the Acquire scope that fills the state
NextProduce ==
  \/ \E k \in StreamIDs, st \in StateIds : AcquireNew(k, st)
  \/ \E s \in ScopeIds : AcquireDestroy(s)
  \/ \E k \in StreamIDs, ok \in BOOLEAN : ProduceNew(k, ok)
  \/ \E p \in products, ok \in BOOLEAN : ProduceFrom(p, ok)
  \/ \E st \in StateIds, ok \in BOOLEAN : ProduceFromState(st, ok)
  \/ \E s \in ScopeIds : Wrap(s)
  \/ \E s \in ScopeIds : ProduceDestroy(s)

SpecProduce == Init /\ [][NextProduce]_vars

\* the continuation state handed from the acquire phase to its callbacks and to
\* the Produce scope, with an event cache that may fail
NextHandOver ==
  \/ \E k \in StreamIDs, st \in StateIds : AcquireNew(k, st)
  \/ \E s \in ScopeIds : AcquirePushNextTask(s)
  \/ \E s \in ScopeIds : AcquireDestroy(s)
  \/ \E str \in Streams : StreamCallback(str)
  \/ \E s \in ScopeIds : TaskPushNextTask(s)
  \/ \E s \in ScopeIds : TaskDestroy(s)
  \/ \E st \in StateIds, ok \in BOOLEAN : ProduceFromState(st, ok)
  \/ \E s \in ScopeIds : ProduceDestroy(s)

SpecHandOver == Init /\ [][NextHandOver]_vars

\* every kind of scope alive, with every operation a living scope offers, over
\* wrappers whose event is not recorded yet
NextDevice ==
  \/ \E k \in StreamIDs, st \in StateIds : AcquireNew(k, st)
  \/ \E s \in ScopeIds : AcquirePushNextTask(s)
  \/ \E s \in ScopeIds : ReplaceWaitingTaskHolder(s)
  \/ \E s \in ScopeIds : AcquireDestroy(s)
  \/ \E k \in StreamIDs : ProduceNew(k, TRUE)
  \/ \E s \in ScopeIds : Wrap(s)
  \/ \E s \in ScopeIds, p \in products : Get(s, p)
  \/ \E p \in products : AnalyzeFrom(p)
  \/ \E str \in Streams : StreamCallback(str)
  \/ \E s \in ScopeIds : TaskPushNextTask(s)

SpecDevice == Init /\ [][NextDevice]_vars

TypeOK ==
  /\ Cardinality(ClientScopes) <= MaxScopes
  /\ Cardinality(TaskScopes) <= MaxTaskScopes
  /\ Len(tasks) <= MaxTasks
  /\ \A s \in ScopeIds : scopes[s].wraps <= MaxWraps
  /\ currentDevice \in Devices


\* ----- the synchronizing getter -----

GetDone == last.op = "get"
Reader == scopes[last.scope]

\* C1: a read of a wrapper that is not available and lives on another stream
\* issues exactly one wait-on-event instruction, and that instruction makes the
\* reading scope's own stream wait on the wrapper's event.
C1_OneWaitOnOwnStream ==
  (GetDone /\ ~isAvailable(last.prod) /\ last.prod.stream # stream(Reader))
    => last.waits = << <<stream(Reader), last.prod.event>> >>

C1_Witness ==
  /\ GetDone
  /\ ~isAvailable(last.prod)
  /\ last.prod.stream # stream(Reader)
  /\ last.prod.event # last.prod.stream
  /\ Len(last.waits) = 1

C3_AvailableNoWait ==
  (GetDone /\ isAvailable(last.prod)) => last.waits = <<>>

C3_Witness ==
  /\ GetDone
  /\ isAvailable(last.prod)
  /\ last.prod.stream # stream(Reader)
  /\ last.waits = <<>>

\* ----- the Produce scope -----

ProduceScopes == {s \in ScopeIds : scopes[s].kind = "Produce"}

\* C5: a Produce scope records its own event on its own stream exactly once, at
\* destruction, whatever the number of wrap/emplace calls; while the scope
\* lives nothing is recorded.
C5_OneRecordAtDestruction ==
  \A s \in ProduceScopes :
    /\ scopes[s].alive => (scopes[s].rec = <<>> /\ scopes[s].event \notin recorded)
    /\ ~scopes[s].alive => scopes[s].rec = << <<scopes[s].event, stream(scopes[s])>> >>

C5_Witness ==
  /\ \E s \in ProduceScopes : ~scopes[s].alive /\ scopes[s].wraps = 2 /\ Len(scopes[s].rec) = 1
  /\ \E s \in ProduceScopes : ~scopes[s].alive /\ scopes[s].wraps = 0 /\ Len(scopes[s].rec) = 1


\* ----- the continuation chain -----

AcquireScopes == {s \in ScopeIds : scopes[s].kind = "Acquire"}
ChainTasks == {t \in TaskIds : tasks[t].kind = "chain"}

\* the targets a target wraps, itself included, down to the framework's holder
RECURSIVE ChainOf(_)
ChainOf(h) == IF h = NoHolder THEN {} ELSE {h} \cup ChainOf(tasks[h].prev)

\* the callbacks pushed on scope s
Pushed(s) == {t \in ChainTasks : tasks[t].by = s}

\* no target that wraps one of the targets in T was overwritten by
\* replaceWaitingTaskHolder
NoDrop(T) == \A t \in TaskIds : tasks[t].dropped => ChainOf(t) \cap T = {}

\* every registered callback has fired and every Acquire and Task scope has ended
Quiescent ==
  /\ \A str \in Streams : queue[str] = <<>>
  /\ \A s \in ScopeIds : scopes[s].kind \in {"Acquire", "Task"} => ~scopes[s].alive

\* a step that constructs a scope of the given kind
Built(kind) ==
  /\ Len(scopes') = Len(scopes) + 1
  /\ scopes'[Len(scopes')].kind = kind
NewestScope == scopes'[Len(scopes')]

\* C4: an Acquire scope calls enqueueCallback exactly once, at destruction, with
\* its own device and stream, whatever the pushNextTask and
\* replaceWaitingTaskHolder calls before; the target it holds is not fired
\* while the scope lives and is fired at most once afterwards.
C4_OneEnqueueAtDestruction ==
  \A s \in AcquireScopes :
    /\ scopes[s].alive =>
         (scopes[s].enq = <<>> /\ tasks[scopes[s].holder].runs = 0)
    /\ ~scopes[s].alive =>
         (scopes[s].enq = << <<device(scopes[s]), stream(scopes[s])>> >>
          /\ tasks[scopes[s].holder].runs <= 1)

C4_Witness ==
  \E s \in AcquireScopes :
    /\ ~scopes[s].alive
    /\ tasks[scopes[s].h0].dropped
    /\ Cardinality(Pushed(s)) = 2
    /\ Len(scopes[s].enq) = 1
    /\ tasks[scopes[s].holder].runs = 1

\* C6: for an Acquire scope built with holder H0 and a continuation state, on
\* which pushNextTask was called: every pushed callback runs at most once, and
\* exactly once when the scope has ended and all registered callbacks have
\* fired; each runs in a Task scope with the device and stream of the state; H0
\* is signalled exactly once, and only after every pushed callback has run and
\* its Task scope has ended.
C6_State ==
  \A a \in AcquireScopes :
    (Pushed(a) # {} /\ scopes[a].h0 \in ChainOf(scopes[a].holder)) =>
      /\ \A t \in Pushed(a) \cup {scopes[a].h0} : tasks[t].runs <= 1
      /\ tasks[scopes[a].h0].runs = 1 =>
           \A t \in Pushed(a) :
             /\ tasks[t].runs = 1
             /\ \A s \in TaskScopes : scopes[s].of = t => ~scopes[s].alive
      /\ (Quiescent /\ NoDrop(ChainOf(scopes[a].holder))) =>
           \A t \in Pushed(a) \cup {scopes[a].h0} : tasks[t].runs = 1

C6_TaskStep ==
  Built("Task") =>
    /\ NewestScope.state = tasks[NewestScope.of].state
    /\ device(NewestScope) = StateDevice(NewestScope.state)
    /\ stream(NewestScope) = StateStreamPtr(NewestScope.state)

C6_CallbacksThenHolder == [](C6_State) /\ [][C6_TaskStep]_vars

C6_Witness ==
  \E a \in AcquireScopes :
    /\ Quiescent
    /\ Cardinality(Pushed(a)) = 2
    /\ scopes[a].h0 \in ChainOf(scopes[a].holder)
    /\ \A t \in Pushed(a) \cup {scopes[a].h0} : tasks[t].runs = 1

\* C7: after pushNextTask(f1) and pushNextTask(f2) on one scope the scope holds
\* the one target composed by the second call; f2 runs first, f1 is wrapped as
\* the holder of f2's Task scope, carries the same continuation state, runs only
\* after f2's Task scope has ended, at most once, and exactly once when all
\* registered callbacks have fired.
C7_LatestFirstNoneDropped ==
  /\ last.op = "push" =>
       /\ scopes[last.scope].holder = Len(tasks)
       /\ tasks[Len(tasks)].by = last.scope
  /\ \A f1, f2 \in ChainTasks :
       (/\ tasks[f2].prev = f1
        /\ tasks[f1].by = tasks[f2].by
        /\ scopes[tasks[f2].by].kind \in {"Acquire", "Task"}) =>
         /\ tasks[f1].state = tasks[f2].state
         /\ tasks[f1].runs <= 1
         /\ \A s \in TaskScopes : scopes[s].of = f2 => scopes[s].h0 = f1
         /\ tasks[f1].runs = 1 =>
              /\ tasks[f2].runs = 1
              /\ \A s \in TaskScopes : scopes[s].of = f2 => ~scopes[s].alive
         /\ (Quiescent /\ NoDrop({f1, f2})) => tasks[f1].runs = 1

C7_Witness ==
  \E f1, f2 \in ChainTasks :
    /\ tasks[f2].prev = f1
    /\ tasks[f1].by = tasks[f2].by
    /\ scopes[tasks[f2].by].kind = "Acquire"
    /\ tasks[f2].runs = 1
    /\ tasks[f1].runs = 1

\* ----- the continuation state -----

FromState(sc, st) == sc.src = [how |-> "state", id |-> st]

\* C8: constructing a Produce scope from a continuation state gives the scope
\* the state's device and the stream the state held and leaves the state
\* without a stream; a scope built from a state without a stream gets none.
C8_Step ==
  \A st \in StateIds :
    /\ (Built("Produce") /\ FromState(NewestScope, st)) =>
         /\ stream(NewestScope) = StateStreamPtr(st)
         /\ device(NewestScope) = StateDevice(st)
         /\ cstate'[st] = [dev |-> StateDevice(st), stream |-> NoStream]
    /\ ((Built("Produce") \/ Built("Task")) /\ FromState(NewestScope, st)
        /\ StateStreamPtr(st) = NoStream) =>
         stream(NewestScope) = NoStream

C8_StreamTransferred == [][C8_Step]_vars

C8_Witness ==
  \E p \in ProduceScopes, t \in TaskScopes :
    /\ p < t
    /\ scopes[p].src = scopes[t].src
    /\ scopes[p].src.how = "state"
    /\ stream(scopes[p]) # NoStream
    /\ stream(scopes[t]) = NoStream
    /\ StateStreamPtr(scopes[p].src.id) = NoStream

\* a Produce scope was constructed from state st before scope number i
ProduceBefore(i, st) ==
  \E j \in 1..(i - 1) : scopes[j].kind = "Produce" /\ FromState(scopes[j], st)

\* C9, as stated: every Task scope has the device and the usable stream that
\* an Acquire scope captured in its continuation state, also when a Produce
\* scope was built from that state before.
C9_TaskAfterProduceHasStream ==
  \A i \in TaskScopes :
    /\ stream(scopes[i]) # NoStream
    /\ \E a \in AcquireScopes :
         /\ scopes[a].state = scopes[i].state
         /\ device(scopes[a]) = device(scopes[i])
         /\ stream(scopes[a]) = stream(scopes[i])

\* C9, amended: every Task scope has the device an ended Acquire scope captured
\* in its continuation state, and that scope's stream unless a Produce scope was
\* constructed from the state before the Task scope; only then can it be left
\* without a stream.
C9_TaskBeforeProduceHasStream ==
  \A i \in TaskScopes :
    /\ \E a \in AcquireScopes :
         /\ ~scopes[a].alive
         /\ scopes[a].state = scopes[i].state
         /\ device(scopes[a]) = device(scopes[i])
         /\ stream(scopes[i]) \in {stream(scopes[a]), NoStream}
    /\ stream(scopes[i]) = NoStream =>
         (ProduceBefore(i, scopes[i].state) \/ scopes[i].state \in pool.returned)

C9_Witness ==
  \E i \in TaskScopes, p \in ProduceScopes :
    /\ i < p
    /\ FromState(scopes[p], scopes[i].state)
    /\ stream(scopes[i]) # NoStream
    /\ stream(scopes[p]) = stream(scopes[i])

\* ----- pushNextTask without a continuation state -----

\* an Acquire scope without continuation state never composes a target: its
\* pushNextTask throws, and the scope holds its framework holder or the one that
\* replaceWaitingTaskHolder put in its place
C10_AcquireRejects ==
  /\ last.op = "throwNoState" =>
       (scopes[last.scope].kind = "Acquire" /\ scopes[last.scope].state = NoState)
  /\ \A s \in AcquireScopes :
       scopes[s].state = NoState =>
         /\ Pushed(s) = {}
         /\ tasks[scopes[s].holder].kind = "base"
         /\ scopes[s].holder = scopes[s].h0 \/ tasks[scopes[s].h0].dropped

\* C10, as stated: an Acquire scope without continuation state rejects
\* pushNextTask, and the holder helper rejects a null state too, so that no
\* target is ever composed around a null state.
C10_NullStateRejectedEverywhere ==
  /\ C10_AcquireRejects
  /\ \A t \in ChainTasks : tasks[t].state # NoState

\* C10, amended: an Acquire scope without continuation state rejects
\* pushNextTask before touching its target; the holder helper makes no check and
\* installs the composed target whatever the state, a null one included.
C10_OnlyAcquireRejects ==
  /\ C10_AcquireRejects
  /\ (last.op = "push" /\ scopes[last.scope].kind = "Helper") =>
       /\ scopes[last.scope].holder = Len(tasks)
       /\ tasks[Len(tasks)].prev \in TaskIds
  /\ \A t \in ChainTasks :
       tasks[t].state = NoState => scopes[tasks[t].by].kind = "Helper"

C10_Witness ==
  /\ last.op = "throwNoState"
  /\ tasks[scopes[last.scope].holder].kind = "base"
  /\ \E t \in ChainTasks : tasks[t].state = NoState

\* a Produce construction during which the event cache supplies no event
EventCacheFails ==
  \/ \E k \in StreamIDs : ProduceNew(k, FALSE)
  \/ \E p \in products : ProduceFrom(p, FALSE)
  \/ \E st \in StateIds : StateDevice(st) \in Devices /\ ProduceFromState(st, FALSE)

C11_Step ==
  EventCacheFails =>
    /\ last'.op = "throwEvent"
    /\ UNCHANGED <<scopes, products, recorded, queue, tasks>>

\* C11: when the event cache supplies no event during the construction of a
\* Produce scope (from a stream key, a wrapper or a continuation state), the
\* construction fails: no Produce scope exists afterwards, no wrapper is built,
\* no event is recorded and nothing is queued on a stream; every Produce scope
\* that exists holds an event.
C11_NoEventNoScope ==
  /\ [](\A i \in ProduceScopes : scopes[i].event # NoEvent)
  /\ [][C11_Step]_vars

C11_Witness ==
  /\ last.op = "throwEvent"
  /\ pool.returned # {}
  /\ products # {}
  /\ \E i \in ProduceScopes : scopes[i].alive

\* the device of the thing a scope is constructed from, read before the step
SourceDevice(src) ==
  CASE src.how = "streamID" -> ChooseDevice(src.id)
    [] src.how = "product" -> src.id.dev
    [] src.how = "state" -> StateDevice(src.id)
    [] OTHER -> NoDevice

DeviceScopes == {i \in ScopeIds : scopes[i].kind # "Helper"}

C12_Step ==
  /\ \A i \in DeviceScopes : device(scopes'[i]) = device(scopes[i])
  /\ (Len(scopes') = Len(scopes) + 1 /\ NewestScope.kind # "Helper") =>
       device(NewestScope) = SourceDevice(NewestScope.src)

\* C12: device() of a scope is the device of the thing it was constructed from
\* (the device chosen for the stream key, the wrapper's device, the state's
\* device at that moment) and stays that value as long as the scope exists: no
\* get, pushNextTask, replaceWaitingTaskHolder, wrap or destruction changes it.
C12_DeviceFixedAtConstruction == [][C12_Step]_vars

C12_Witness ==
  /\ last.op = "get"
  /\ last.prod.dev # device(scopes[last.scope])
  /\ last.scope \in AcquireScopes
  /\ Pushed(last.scope) # {}
  /\ \E t \in TaskIds : tasks[t].dropped

\* a step of a Task scope: its construction by the trampoline, a pushNextTask
\* on it, its destruction
TaskScopeStep ==
  \/ Built("Task")
  \/ \E s \in TaskScopes : scopes[s].alive /\ TaskPushNextTask(s)
  \/ \E s \in TaskScopes : scopes[s].alive /\ ~scopes'[s].alive

C13_Step ==
  /\ TaskScopeStep => cstate' = cstate
  /\ Built("Task") =>
       /\ device(NewestScope) = cstate'[NewestScope.state].dev
       /\ streamPtr(NewestScope) = cstate'[NewestScope.state].stream

\* C13: the construction of a Task scope from a continuation state, a
\* pushNextTask on it and its destruction leave the state's device and stream
\* as they were, and the new Task scope has the device and stream the state
\* still holds, so successive Task scopes built from the state see the same
\* device and stream.
C13_TaskLeavesState == [][C13_Step]_vars

C13_Witness ==
  \E i, j \in TaskScopes :
    /\ scopes[j].of \in Pushed(i)
    /\ ~scopes[i].alive /\ ~scopes[j].alive
    /\ stream(scopes[i]) # NoStream
    /\ stream(scopes[j]) = stream(scopes[i])
    /\ device(scopes[j]) = device(scopes[i])
    /\ cstate[scopes[j].state] = [dev |-> device(scopes[j]), stream |-> stream(scopes[j])]

\* C14: the decision of get is taken anew at every read: after k reads in a
\* row of the same wrapper by one scope, with the wrapper not available and on
\* another stream than the scope's, k waits were issued, the latest like the
\* first; after k reads of a wrapper that needs no wait, none was issued;
\* whatever was read before the run does not count.
C14_EveryReadDecides ==
  GetDone =>
    /\ (~isAvailable(last.prod) /\ last.prod.stream # stream(Reader)) =>
         /\ last.issued = last.nth
         /\ last.waits = << <<stream(Reader), last.prod.event>> >>
    /\ (isAvailable(last.prod) \/ last.prod.stream = stream(Reader)) =>
         /\ last.issued = 0
         /\ last.waits = <<>>

C14_Witness ==
  /\ GetDone
  /\ last.nth = MaxGets
  /\ last.issued = MaxGets
  /\ ~isAvailable(last.prod)
  /\ last.prod.stream # stream(Reader)

\* a step that ends a scope
Destroyed == \E i \in DeviceScopes : scopes[i].alive /\ ~scopes'[i].alive

C15_Step ==
  /\ (Len(scopes') = Len(scopes) + 1 /\ NewestScope.kind # "Helper") =>
       currentDevice' = device(NewestScope)
  /\ Destroyed => currentDevice' = currentDevice

\* C15: the construction of a scope makes the scope's device the current
\* device, and the destruction of a scope leaves the current device as it is:
\* it is not set back to the device that was current before the construction.
C15_DeviceSelectedNotRestored == [][C15_Step]_vars

\* a scope on another device was constructed and destroyed while an earlier
\* scope lives: the thread is still on the device of the scope that ended
C15_Witness ==
  \E i, j \in DeviceScopes :
    /\ i < j /\ j = Len(scopes)
    /\ scopes[i].alive /\ ~scopes[j].alive
    /\ device(scopes[j]) # device(scopes[i])
    /\ currentDevice = device(scopes[j])

HolderScopes == {i \in ScopeIds : scopes[i].kind \in {"Acquire", "Task"}}

\* the targets bound to a stream's completion and not fired yet
Bound == UNION {{queue[str][k].holder : k \in 1..Len(queue[str])} : str \in Streams}

\* scope s is given a new holder in this step
Replaced(s) ==
  /\ scopes[s].alive
  /\ ~tasks[scopes[s].holder].dropped
  /\ tasks'[scopes[s].holder].dropped

C16_State ==
  /\ \A t \in TaskIds : tasks[t].dropped =>
       /\ \A u \in ChainOf(t) : tasks[u].runs = 0 /\ u \notin Bound
       /\ \A i \in HolderScopes : scopes[i].alive => scopes[i].holder \notin ChainOf(t)
  /\ \A i \in HolderScopes : ~tasks[scopes[i].holder].dropped

C16_Step ==
  \A s \in HolderScopes :
    /\ Replaced(s) =>
         /\ Len(tasks') = Len(tasks) + 1
         /\ scopes'[s].holder = Len(tasks')
         /\ tasks'[Len(tasks')] = FrameworkHolder
    /\ (scopes[s].alive /\ ~scopes'[s].alive) =>
         queue'[stream(scopes[s])] =
           Append(queue[stream(scopes[s])],
                  [holder |-> scopes[s].holder, dev |-> device(scopes[s])])
    /\ (last'.op = "push" /\ last'.scope = s /\ Len(tasks') = Len(tasks) + 1) =>
         /\ tasks'[Len(tasks')].prev = scopes[s].holder
         /\ scopes'[s].holder = Len(tasks')

\* C16: replaceWaitingTaskHolder on an Acquire or Task scope makes the new
\* holder the one target the scope holds: the enqueueCallback of the scope's
\* destruction binds the target held then, a later pushNextTask wraps the
\* target held then, and the target given up, with the chain earlier
\* pushNextTask calls built under it, is held by no scope, is bound to no
\* stream and is not fired.
C16_ReplacedHolderIsTheTarget == [](C16_State) /\ [][C16_Step]_vars

\* a scope pushed, was given a new holder, pushed again and ended; the
\* callback bound at its end ran and the chain given up did not
C16_Witness ==
  \E s \in AcquireScopes : \E t, u \in Pushed(s) :
    /\ t < u
    /\ tasks[t].dropped
    /\ tasks[tasks[u].prev].kind = "base"
    /\ tasks[u].prev # scopes[s].h0
    /\ ~scopes[s].alive
    /\ tasks[u].runs = 1
    /\ tasks[t].runs = 0

\* the Produce scopes whose event a wrapper carries
ProducerOf(p) == {i \in ProduceScopes : scopes[i].event = p.event}

\* C17: whenever a get issues a wait on a wrapper's event, the event has been
\* recorded: no consumer on another stream waits on the event of a wrapper
\* whose Produce scope is still alive.
C17_WaitOnlyOnRecorded ==
  (GetDone /\ last.waits # <<>>) =>
    /\ \A k \in 1..Len(last.waits) : last.waits[k][2] \in recorded
    /\ \A i \in ProducerOf(last.prod) : ~scopes[i].alive

\* the Produce scopes that built a wrapper
Wrapping == {i \in ProduceScopes : scopes[i].wraps > 0}

\* C19: every wrapper built by wrap or emplace on a Produce scope carries the
\* scope's device, the scope's stream and the one event the scope owns, and is
\* not available when built; the wrappers of one scope share that event, which
\* no record names while the scope lives and which the one record of the
\* scope's destruction names for all of them.
C19_WrappersShareTheEvent ==
  /\ \A p \in products : \E i \in Wrapping :
       /\ p = [dev |-> device(scopes[i]), stream |-> streamPtr(scopes[i]),
                event |-> scopes[i].event]
       /\ p.event # NoEvent
       /\ scopes[i].alive => (p.event \notin recorded /\ ~isAvailable(p))
       /\ ~scopes[i].alive =>
            (p.event \in recorded /\ scopes[i].rec = << <<p.event, stream(scopes[i])>> >>)
  /\ \A i \in Wrapping : \E p \in products : ProducerOf(p) = {i}
  /\ Cardinality(products) <= Cardinality(Wrapping)

C19_Witness ==
  \E i \in Wrapping : \E p \in products :
    /\ scopes[i].wraps = MaxWraps
    /\ ~scopes[i].alive
    /\ ProducerOf(p) = {i}
    /\ p.event \in recorded
    /\ Cardinality(products) = 2

=============================================================================
